---- MODULE Spec2Model ----
(***************************************************************************)
(* Model of the in-memory fixed-window rate limiter of the portfolio       *)
(* backend (src/src/lib/rateLimit.ts).                                      *)
(*                                                                         *)
(* Strings that the code splits and trims are sequences of tokens: a token *)
(* is either the separator ",", the blank " ", or a run of characters that *)
(* holds neither.  Times are milliseconds, as returned by Date.now().      *)
(***************************************************************************)
EXTENDS Integers, Sequences, FiniteSets, TLC

VARIABLES
    rateLimitStore,   \* own properties of the store object: identifier -> entry
    now,              \* the value Date.now() returns
    last,             \* the latest checkRateLimit call and what it returned
    trace,            \* history: the time, the class and the result of each call
    pc,               \* parallel execution: the line each worker is at
    loc,              \* parallel execution: each worker's local values
    started,          \* parallel execution: calls begun
    lost,             \* parallel execution: increments undone by stale writes
    admitted,         \* parallel execution: calls answered allowed = true
    unswept,          \* the same calls made on a store that is never swept
    derived,          \* the latest getClientIdentifier call and its result
    token,            \* the latest generateToken call and the token it made
    verdict,          \* the latest verifyToken / requireAuth call and its result
    db,               \* the collections and the image host
    resp,             \* the latest route handler run: what it did and answered
    lookups,          \* history: credential lookups in the client's current window
    session           \* the browser: localStorage and the authenticatedFetch call

parVars == <<pc, loc, started, lost, admitted>>

auxVars == <<unswept, derived, token, verdict, db, resp>>

siteVars == <<lookups, session>>

vars == <<rateLimitStore, now, last, trace, pc, loc, started, lost, admitted,
          unswept, derived, token, verdict, db, resp, lookups, session>>

----------------------------------------------------------------------------
(* Bounds of the model                                                      *)

\* checks are not offered once an entry's count has reached this value
MaxCount == 11

\* the same, where two clients are checked side by side
MaxPairCount == 4

\* how many of the clock readings of Instants the clock may take
MaxInstant == 5

\* the longest recorded history of calls
MaxTrace == 7

\* how many calls the parallel workers begin
MaxParCalls == 6

\* how many request handlers run in parallel
MaxWorkers == 2

----------------------------------------------------------------------------
(* Configuration: rateLimit.ts lines 116-147 and the default of line 45     *)

RATE_LIMITS ==
    [login      |-> [maxRequests |-> 5, windowSeconds |-> 300,
                     message |-> "Too many login attempts. Please try again in 5 minutes."],
     contact    |-> [maxRequests |-> 3, windowSeconds |-> 3600,
                     message |-> "Too many contact form submissions. Please try again later."],
     upload     |-> [maxRequests |-> 10, windowSeconds |-> 3600,
                     message |-> "Too many upload requests. Please try again later."],
     api        |-> [maxRequests |-> 100, windowSeconds |-> 60,
                     message |-> "Too many requests. Please slow down."],
     publicRead |-> [maxRequests |-> 200, windowSeconds |-> 60,
                     message |-> "Too many requests. Please slow down."]]

\* the configuration checkRateLimit uses when the caller passes none: it has
\* no message property
DefaultConfig == [maxRequests |-> 10, windowSeconds |-> 60]

Classes == {"login", "contact", "upload", "api", "publicRead"}

\* a call site: one of the named endpoint classes, or a call without a config
Callers == Classes \cup {"default"}

ConfigOf(c) == IF c = "default" THEN DefaultConfig ELSE RATE_LIMITS[c]

DefaultMessage == "Too many requests. Please try again later."

----------------------------------------------------------------------------
(* Requests: the headers getClientIdentifier reads                          *)

Blank == " "
Comma == ","

\* a request is its header map; a header that is absent is not in the domain
ReqDirect == ("x-forwarded-for" :> <<"1.2.3.4">>)

ReqProxied ==
    ("x-forwarded-for" :> <<Blank, "1.2.3.4", Blank, Comma, Blank, "9.9.9.9">>)
        @@ ("x-real-ip" :> <<"5.6.7.8">>)

ReqRealIp == ("x-real-ip" :> <<"5.6.7.8">>) @@ ("user-agent" :> <<"curl">>)

ReqEmptyForwarded == ("x-forwarded-for" :> <<>>) @@ ("x-real-ip" :> <<"5.6.7.8">>)

ReqValueOf == ("user-agent" :> <<"valueOf">>)

Requests == {ReqDirect, ReqProxied, ReqRealIp, ReqEmptyForwarded, ReqValueOf}

\* headers.get(name) of a header that is present and not the empty string
Truthy(request, name) == name \in DOMAIN request /\ request[name] # <<>>

\* String.prototype.split(',')[0]: the tokens before the first comma
RECURSIVE FirstElement(_)
FirstElement(s) ==
    IF s = <<>> \/ Head(s) = Comma THEN <<>>
    ELSE <<Head(s)>> \o FirstElement(Tail(s))

RECURSIVE TrimStart(_)
TrimStart(s) ==
    IF s # <<>> /\ Head(s) = Blank THEN TrimStart(Tail(s)) ELSE s

RECURSIVE TrimEnd(_)
TrimEnd(s) ==
    IF s # <<>> /\ s[Len(s)] = Blank THEN TrimEnd(SubSeq(s, 1, Len(s) - 1)) ELSE s

\* String.prototype.trim()
Trim(s) == TrimEnd(TrimStart(s))

\* the two proxy headers read in the other order
M_getClientIdentifierRealIpFirst(request) ==
    IF Truthy(request, "x-real-ip")
    THEN request["x-real-ip"]
    ELSE IF Truthy(request, "x-forwarded-for")
    THEN Trim(FirstElement(request["x-forwarded-for"]))
    ELSE IF Truthy(request, "user-agent")
    THEN request["user-agent"]
    ELSE <<"unknown">>

getClientIdentifier(request) ==
    IF Truthy(request, "x-forwarded-for")
    THEN Trim(FirstElement(request["x-forwarded-for"]))
    ELSE IF Truthy(request, "x-real-ip")
    THEN request["x-real-ip"]
    ELSE IF Truthy(request, "user-agent")
    THEN request["user-agent"]
    ELSE <<"unknown">>

Identifiers == { getClientIdentifier(r) : r \in Requests }

----------------------------------------------------------------------------
(* The store object                                                         *)

\* rateLimitStore = {} is a plain object: a property it does not own is
\* looked up on Object.prototype, where these names are functions (truthy,
\* with no count and no resetAt)
InheritedKeys ==
    { <<"constructor">>, <<"toString">>, <<"toLocaleString">>, <<"valueOf">>,
      <<"hasOwnProperty">>, <<"isPrototypeOf">>, <<"propertyIsEnumerable">>,
      <<"__proto__">> }

Own(st, identifier) == identifier \in DOMAIN st

\* !rateLimitStore[identifier]
Missing(st, identifier) ==
    ~Own(st, identifier) /\ identifier \notin InheritedKeys

\* variant: the window already counts as over at the instant resetAt
M_ExpiredInclusive(st, identifier, t) ==
    Own(st, identifier) /\ st[identifier].resetAt <= t

\* rateLimitStore[identifier].resetAt < now; undefined < now is false
Expired(st, identifier, t) ==
    Own(st, identifier) /\ st[identifier].resetAt < t

\* variant: one entry object shared by every key of the store
M_PutAliased(st, identifier, entry) ==
    [k \in DOMAIN st \cup {identifier} |-> entry]

Put(st, identifier, entry) ==
    [k \in DOMAIN st \cup {identifier} |->
        IF k = identifier THEN entry ELSE st[k]]

Max(a, b) == IF a >= b THEN a ELSE b

\* config.message || 'Too many requests. Please try again later.'
MessageOf(config) ==
    IF "message" \in DOMAIN config /\ config.message # ""
    THEN config.message ELSE DefaultMessage

\* variant: an entry whose window is over is not replaced
M_StartsWindowMissingOnly(st, identifier, t) == Missing(st, identifier)

\* the test of line 58
StartsWindow(st, identifier, t) ==
    Missing(st, identifier) \/ Expired(st, identifier, t)

\* variant: one request too many is let through
M_WithinLimitOffByOne(count, config) == count <= config.maxRequests + 1

\* the test of line 75
WithinLimit(count, config) == count <= config.maxRequests

\* checkRateLimit(request, config) called when Date.now() = t: the store it
\* leaves and the object it returns
checkRateLimit(st, request, config, t) ==
    LET identifier == getClientIdentifier(request)
        windowMs   == config.windowSeconds * 1000
    IN  IF StartsWindow(st, identifier, t)
        THEN [store  |-> Put(st, identifier, [count |-> 1, resetAt |-> t + windowMs]),
              result |-> [allowed |-> TRUE,
                          remaining |-> config.maxRequests - 1,
                          resetAt |-> t + windowMs]]
        ELSE IF Own(st, identifier)
        THEN LET count     == st[identifier].count + 1
                 remaining == Max(0, config.maxRequests - count)
                 st2       == Put(st, identifier,
                                  [count |-> count, resetAt |-> st[identifier].resetAt])
             IN  IF ~WithinLimit(count, config)
                 THEN [store  |-> st2,
                       result |-> [allowed |-> FALSE, remaining |-> 0,
                                   resetAt |-> st2[identifier].resetAt,
                                   error |-> MessageOf(config)]]
                 ELSE [store  |-> st2,
                       result |-> [allowed |-> TRUE, remaining |-> remaining,
                                   resetAt |-> st2[identifier].resetAt]]
        \* an inherited property: count++ stores NaN on the prototype's
        \* function, NaN <= maxRequests is false, resetAt is undefined
        ELSE [store  |-> st,
              result |-> [allowed |-> FALSE, remaining |-> 0,
                          error |-> MessageOf(config)]]

\* a sweep that also deletes the entry whose window ends at this instant
M_sweepInclusive(st, t) ==
    [k \in { k \in DOMAIN st : ~(st[k].resetAt <= t) } |-> st[k]]

\* a sweep whose comparison is turned around: it deletes the entries whose
\* window is still open
M_sweepInverted(st, t) ==
    [k \in { k \in DOMAIN st : st[k].resetAt < t } |-> st[k]]

\* the setInterval callback of lines 14-21
sweep(st, t) ==
    [k \in { k \in DOMAIN st : ~(st[k].resetAt < t) } |-> st[k]]

----------------------------------------------------------------------------
(* The clock                                                                *)

\* the values Date.now() takes, assumed not to go backwards; the first
\* MaxInstant of them are used.  60000 and 60001 are the end of a 60 s window
\* opened at 0 and the first instant after it, 301000 is past a 300 s window
Instants ==
    <<0, 10000, 60000, 60001, 301000, 300000, 300001, 3600000, 3600001>>

Min(a, b) == IF a <= b THEN a ELSE b

Readings == { Instants[i] : i \in 1 .. Min(MaxInstant, Len(Instants)) }

----------------------------------------------------------------------------
(* Actions                                                                  *)

NoCall == [op |-> "none"]

\* request handlers running in parallel
Workers == 1 .. MaxWorkers

\* nothing derived, issued, verified or handled yet
NoDerivation == [op |-> "none"]
NoToken == [op |-> "none"]
NoVerdict == [op |-> "none"]
NoResponse == [op |-> "none"]

\* no window of the client seen yet
NoLookups == [resetAt |-> 0, findOne |-> 0, compare |-> 0, issued |-> 0]

\* a browser tab with an empty localStorage and no call under way
NoSession ==
    [localStorage |-> << >>, pc |-> "idle", window |-> TRUE, sent |-> 0,
     fetch |-> [op |-> "none"], outcome |-> [op |-> "none"], location |-> "/admin"]

\* the collections the routes write and the folders of the image host
Collections == {"projects", "experiences", "education", "skills", "interests"}
\* a document is [coll, id, image]: its collection, its _id and the image it
\* refers to (0: none); images holds the public ids stored on the image host
EmptyDb == [docs |-> {}, images |-> {}]

Init ==
    /\ rateLimitStore = << >>
    /\ now = 0
    /\ last = NoCall
    /\ trace = << >>
    /\ pc = [w \in Workers |-> "idle"]
    /\ loc = [w \in Workers |-> [t |-> 0, count |-> 0, remaining |-> 0]]
    /\ started = 0
    /\ lost = 0
    /\ admitted = 0
    /\ unswept = [store |-> << >>, last |-> NoCall]
    /\ derived = NoDerivation
    /\ token = NoToken
    /\ verdict = NoVerdict
    /\ db = EmptyDb
    /\ resp = NoResponse
    /\ lookups = NoLookups
    /\ session = NoSession

CountOf(st, identifier) == IF Own(st, identifier) THEN st[identifier].count ELSE 0

\* one call of checkRateLimit, run to completion; cap bounds the count
Call(request, c, cap) ==
    LET identifier == getClientIdentifier(request)
        out        == checkRateLimit(rateLimitStore, request, ConfigOf(c), now)
    IN  /\ CountOf(rateLimitStore, identifier) < cap
        /\ rateLimitStore' = out.store
        /\ last' = [op |-> "check", identifier |-> identifier, caller |-> c,
                    opened |-> StartsWindow(rateLimitStore, identifier, now),
                    prior  |-> IF Expired(rateLimitStore, identifier, now)
                               THEN rateLimitStore[identifier].count ELSE 0,
                    count  |-> CountOf(out.store, identifier),
                    result |-> out.result]
        /\ UNCHANGED <<now, parVars>>

Check(request, c) == Call(request, c, MaxCount) /\ UNCHANGED <<siteVars, trace, auxVars>>

\* the timer callback; the timer's phase against the requests is arbitrary,
\* so it may run at any instant
Sweep ==
    /\ rateLimitStore' = sweep(rateLimitStore, now)
    /\ UNCHANGED <<siteVars, now, last, trace, parVars, auxVars>>

Tick ==
    /\ \E t \in Readings : t > now /\ now' = t
    /\ UNCHANGED <<siteVars, rateLimitStore, last, trace, parVars, auxVars>>

\* one client with an address, and one whose identifier is a property name
\* of Object.prototype
SoloRequests ==
    { r \in Requests :
        getClientIdentifier(r) \in {<<"1.2.3.4">>} \cup InheritedKeys }

Next ==
    \/ \E request \in SoloRequests, c \in Callers : Check(request, c)
    \/ Sweep
    \/ Tick

Spec == Init /\ [][Next]_vars

----------------------------------------------------------------------------
(* Two clients side by side                                                 *)

\* one request of client 1.2.3.4 and one of client 5.6.7.8
PairRequests == {ReqProxied, ReqRealIp}

PairCallers == {"login", "contact", "api"}

CheckPair(request, c) == Call(request, c, MaxPairCount) /\ UNCHANGED <<siteVars, trace, auxVars>>

NextKeys ==
    \/ \E request \in PairRequests, c \in PairCallers : CheckPair(request, c)
    \/ Sweep
    \/ Tick

SpecKeys == Init /\ [][NextKeys]_vars

----------------------------------------------------------------------------
(* One client whose calls are recorded                                      *)

TracedRequests == {ReqDirect}

TracedCallers == {"login", "contact"}

\* the clock readings of the login scenario (0 s, 10 s, 301 s) and the instant
\* the first login window ends
TracedReadings == {0, 10000, 300000, 301000}

CheckTraced(request, c) ==
    /\ Len(trace) < MaxTrace
    /\ Call(request, c, MaxCount)
    /\ trace' = Append(trace, [t |-> now, caller |-> c, result |-> last'.result])
    /\ UNCHANGED <<siteVars, auxVars>>

TickTraced ==
    /\ \E t \in TracedReadings : t > now /\ now' = t
    /\ UNCHANGED <<siteVars, rateLimitStore, last, trace, parVars, auxVars>>

NextTrace ==
    \/ \E request \in TracedRequests, c \in TracedCallers : CheckTraced(request, c)
    \/ Sweep
    \/ TickTraced

SpecTrace == Init /\ [][NextTrace]_vars

----------------------------------------------------------------------------
(* checkRateLimit executed by parallel workers, one step per access to the  *)
(* shared store, for one client and one class inside one window (the clock  *)
(* stands still and no sweep runs)                                          *)

ParRequest == ReqDirect

ParCaller == "contact"

ParConfig == ConfigOf(ParCaller)

ParId == getClientIdentifier(ParRequest)

\* a write that counts one call leaves the count one above what it was; a
\* stale write leaves it lower by this many
Shortfall(written) ==
    Max(0, CountOf(rateLimitStore, ParId) + 1 - written)

\* lines 53-55: the identifier and Date.now()
Begin(w) ==
    /\ pc[w] = "idle"
    /\ started < MaxParCalls
    /\ started' = started + 1
    /\ loc' = [loc EXCEPT ![w] = [t |-> now, count |-> 0, remaining |-> 0]]
    /\ pc' = [pc EXCEPT ![w] = "test"]
    /\ UNCHANGED <<siteVars, rateLimitStore, now, last, trace, lost, admitted, auxVars>>

\* line 58: the test
Test(w) ==
    /\ pc[w] = "test"
    /\ pc' = [pc EXCEPT ![w] =
                IF StartsWindow(rateLimitStore, ParId, loc[w].t) THEN "open" ELSE "read"]
    /\ UNCHANGED <<siteVars, rateLimitStore, now, last, trace, loc, started, lost, admitted, auxVars>>

\* lines 59-68: the new entry is written and the call returns allowed
Open(w) ==
    LET resetAt == loc[w].t + ParConfig.windowSeconds * 1000
    IN  /\ pc[w] = "open"
        /\ rateLimitStore' = Put(rateLimitStore, ParId, [count |-> 1, resetAt |-> resetAt])
        /\ last' = [op |-> "check", identifier |-> ParId, caller |-> ParCaller,
                    opened |-> TRUE, prior |-> 0, count |-> 1,
                    result |-> [allowed |-> TRUE,
                                remaining |-> ParConfig.maxRequests - 1,
                                resetAt |-> resetAt]]
        /\ lost' = lost + Shortfall(1)
        /\ admitted' = admitted + 1
        /\ pc' = [pc EXCEPT ![w] = "idle"]
        /\ UNCHANGED <<siteVars, now, trace, loc, started, auxVars>>

\* line 72, count++: the read
Read(w) ==
    /\ pc[w] = "read"
    /\ loc' = [loc EXCEPT ![w].count = rateLimitStore[ParId].count]
    /\ pc' = [pc EXCEPT ![w] = "write"]
    /\ UNCHANGED <<siteVars, rateLimitStore, now, last, trace, started, lost, admitted, auxVars>>

\* line 72, count++: the write
Write(w) ==
    /\ pc[w] = "write"
    /\ rateLimitStore' = Put(rateLimitStore, ParId,
                             [count |-> loc[w].count + 1,
                              resetAt |-> rateLimitStore[ParId].resetAt])
    /\ lost' = lost + Shortfall(loc[w].count + 1)
    /\ pc' = [pc EXCEPT ![w] = "remaining"]
    /\ UNCHANGED <<siteVars, now, last, trace, loc, started, admitted, auxVars>>

\* line 74
Remaining(w) ==
    /\ pc[w] = "remaining"
    /\ loc' = [loc EXCEPT ![w].remaining =
                  Max(0, ParConfig.maxRequests - rateLimitStore[ParId].count)]
    /\ pc' = [pc EXCEPT ![w] = "decide"]
    /\ UNCHANGED <<siteVars, rateLimitStore, now, last, trace, started, lost, admitted, auxVars>>

\* lines 75-90: the decision and the return
Decide(w) ==
    LET entry   == rateLimitStore[ParId]
        allowed == WithinLimit(entry.count, ParConfig)
    IN  /\ pc[w] = "decide"
        /\ last' = [op |-> "check", identifier |-> ParId, caller |-> ParCaller,
                    opened |-> FALSE, prior |-> 0, count |-> entry.count,
                    result |-> IF allowed
                               THEN [allowed |-> TRUE, remaining |-> loc[w].remaining,
                                     resetAt |-> entry.resetAt]
                               ELSE [allowed |-> FALSE, remaining |-> 0,
                                     resetAt |-> entry.resetAt,
                                     error |-> MessageOf(ParConfig)]]
        /\ admitted' = IF allowed THEN admitted + 1 ELSE admitted
        /\ pc' = [pc EXCEPT ![w] = "idle"]
        /\ UNCHANGED <<siteVars, rateLimitStore, now, trace, loc, started, lost, auxVars>>

NextPar ==
    \E w \in Workers :
        \/ Begin(w)
        \/ Test(w)
        \/ Open(w)
        \/ Read(w)
        \/ Write(w)
        \/ Remaining(w)
        \/ Decide(w)

SpecPar == Init /\ [][NextPar]_vars

----------------------------------------------------------------------------
(* Properties of the limiter with one client (Spec)                         *)

\* C1: for one client key, a check made under one endpoint class never
\* changes what a check under a different endpoint class returns (allowed,
\* remaining, resetAt): each class counts on its own.
C1_ClassIndependence ==
    [][\A request \in SoloRequests, c \in Classes :
          Check(request, c) =>
              \A d \in Classes \ {c} :
                  checkRateLimit(rateLimitStore', request, ConfigOf(d), now').result
                      = checkRateLimit(rateLimitStore, request, ConfigOf(d), now).result]_vars

\* C3: when a check is the (N+1)-th or a later one of its window, N being the
\* maxRequests of the configuration it is made under, it returns
\* allowed = false with remaining = 0.
C3_DeniedPastLimit ==
    (last.op = "check" /\ last.count > ConfigOf(last.caller).maxRequests)
        => (last.result.allowed = FALSE /\ last.result.remaining = 0)

\* the sixth check of a window, made under the login class, was denied
C3_Witness ==
    /\ last.op = "check"
    /\ last.caller = "login"
    /\ last.count = RATE_LIMITS.login.maxRequests + 1
    /\ last.result.allowed = FALSE

\* C6: a check made after the entry's resetAt has passed replaces the entry
\* by count = 1 and resetAt = now + windowSeconds * 1000, and returns
\* allowed = true with remaining = maxRequests - 1, whatever the count was.
C6_ExpiryResets ==
    [][\A request \in SoloRequests, c \in Callers :
          LET identifier == getClientIdentifier(request)
              fresh      == now + ConfigOf(c).windowSeconds * 1000
          IN  (/\ Check(request, c)
               /\ Own(rateLimitStore, identifier)
               /\ rateLimitStore[identifier].resetAt < now)
              => /\ rateLimitStore'[identifier] = [count |-> 1, resetAt |-> fresh]
                 /\ last'.result = [allowed |-> TRUE,
                                    remaining |-> ConfigOf(c).maxRequests - 1,
                                    resetAt |-> fresh]]_vars

\* an entry that had been counted past the login limit was replaced
C6_Witness ==
    /\ last.op = "check"
    /\ last.caller = "login"
    /\ last.opened
    /\ last.prior > RATE_LIMITS.login.maxRequests
    /\ last.count = 1
    /\ last.result.allowed

\* C9: while an entry keeps its resetAt its count never decreases, a check
\* of a live entry adds exactly 1 to it (a denied check too), and the count
\* only gets lower when a check replaces an entry whose resetAt has passed,
\* which sets it to 1.
C9_CountMonotone ==
    [][\A identifier \in DOMAIN rateLimitStore \cap DOMAIN rateLimitStore' :
          LET old == rateLimitStore[identifier]
              new == rateLimitStore'[identifier]
          IN  /\ new.resetAt = old.resetAt => new.count >= old.count
              /\ (/\ last' # last
                  /\ last'.identifier = identifier
                  /\ ~(old.resetAt < now))
                 => new = [count |-> old.count + 1, resetAt |-> old.resetAt]
              /\ new.count < old.count
                 => new.count = 1 /\ old.resetAt < now]_vars

\* a check was denied and counted all the same
C9_Witness ==
    /\ last.op = "check"
    /\ last.result.allowed = FALSE
    /\ last.count = ConfigOf(last.caller).maxRequests + 2
    /\ ~last.opened

\* C10: every call returns a decision with allowed, remaining and resetAt;
\* a denial carries remaining = 0, the resetAt of the client's entry, which
\* the call leaves as it was, and the configured (or the default) message;
\* an admission carries no error.
C10_StructuredDecision ==
    [][\A request \in SoloRequests, c \in Callers :
          Check(request, c) =>
              LET identifier == getClientIdentifier(request)
                  r          == last'.result
              IN  /\ {"allowed", "remaining", "resetAt"} \subseteq DOMAIN r
                  /\ r.allowed = FALSE =>
                        /\ r.remaining = 0
                        /\ r.error = MessageOf(ConfigOf(c))
                        /\ Own(rateLimitStore, identifier)
                        /\ r.resetAt = rateLimitStore[identifier].resetAt
                        /\ rateLimitStore'[identifier].resetAt = r.resetAt
                  /\ r.allowed = TRUE => "error" \notin DOMAIN r]_vars

----------------------------------------------------------------------------
(* Properties of recorded calls (SpecTrace)                                 *)

Calls == 1 .. Len(trace)

WindowMs(c) == ConfigOf(c).windowSeconds * 1000

\* the calls up to the i-th made under the i-th call's class no longer than
\* that class's windowSeconds before it
SameClassBefore(i) ==
    { j \in 1 .. i : /\ trace[j].caller = trace[i].caller
                     /\ trace[i].t - trace[j].t <= WindowMs(trace[i].caller) }

\* C2: a call is allowed whenever the client has made at most maxRequests
\* calls of that class in the windowSeconds up to it, whatever calls of
\* other classes were handled before or in between.
C2_AllowedWithinQuota ==
    \A i \in Calls :
        Cardinality(SameClassBefore(i)) <= ConfigOf(trace[i].caller).maxRequests
            => trace[i].result.allowed

\* the calls of one window (named by its resetAt) that were answered
\* allowed = true under class c
Granted(c, resetAt) ==
    { i \in Calls : /\ trace[i].caller = c
                    /\ trace[i].result.allowed
                    /\ trace[i].result.resetAt = resetAt }

\* C4: with calls run to completion one after the other, in every window of
\* the client the number of calls answered allowed = true under a
\* configuration never exceeds that configuration's maxRequests.
C4_AtMostNPerWindow ==
    \A c \in TracedCallers :
        \A i \in Calls :
            Cardinality(Granted(c, trace[i].result.resetAt))
                <= ConfigOf(c).maxRequests

\* a window in which five login calls were granted and a sixth came
C4_Witness ==
    \E i \in Calls :
        /\ trace[i].caller = "login"
        /\ trace[i].result.allowed = FALSE
        /\ Cardinality(Granted("login", trace[i].result.resetAt))
               = RATE_LIMITS.login.maxRequests

ScenarioTimes == <<0, 0, 0, 0, 0, 10000, 301000>>

ScenarioResults ==
    <<[allowed |-> TRUE, remaining |-> 4, resetAt |-> 300000],
      [allowed |-> TRUE, remaining |-> 3, resetAt |-> 300000],
      [allowed |-> TRUE, remaining |-> 2, resetAt |-> 300000],
      [allowed |-> TRUE, remaining |-> 1, resetAt |-> 300000],
      [allowed |-> TRUE, remaining |-> 0, resetAt |-> 300000],
      [allowed |-> FALSE, remaining |-> 0, resetAt |-> 300000,
       error |-> "Too many login attempts. Please try again in 5 minutes."],
      [allowed |-> TRUE, remaining |-> 4, resetAt |-> 601000]>>

\* the recorded calls so far are the first calls of the login scenario
FollowsScenario ==
    /\ Len(trace) <= Len(ScenarioTimes)
    /\ \A i \in Calls : trace[i].caller = "login" /\ trace[i].t = ScenarioTimes[i]

\* C8: login scenario (5 requests per 300 s): starting with no entry for
\* client 1.2.3.4, five checks at t = 0 are allowed with remaining 4, 3, 2,
\* 1, 0, a sixth at t = 10 s is denied with the login message, a seventh at
\* t = 301 s is allowed with remaining = 4.
C8_LoginScenario ==
    FollowsScenario => \A i \in Calls : trace[i].result = ScenarioResults[i]

\* the whole scenario has run
C8_Witness ==
    /\ FollowsScenario
    /\ Len(trace) = Len(ScenarioTimes)
    /\ last.identifier = <<"1.2.3.4">>

----------------------------------------------------------------------------
(* Properties of two clients (SpecKeys)                                     *)

\* C7: a check for one client key leaves the entry of every other key as it
\* was (count, resetAt, presence), and what any check for another key
\* returns is the same as before it.
C7_KeyIndependence ==
    [][last' # last =>
              \A other \in PairRequests :
                  LET b == getClientIdentifier(other)
                  IN  b # last'.identifier =>
                        /\ Own(rateLimitStore', b) = Own(rateLimitStore, b)
                        /\ Own(rateLimitStore, b)
                              => rateLimitStore'[b] = rateLimitStore[b]
                        /\ \A d \in Callers :
                              checkRateLimit(rateLimitStore', other, ConfigOf(d), now').result
                                  = checkRateLimit(rateLimitStore, other, ConfigOf(d), now).result]_vars

\* both clients have an entry, and the one checked last was denied
C7_Witness ==
    /\ last.op = "check"
    /\ last.result.allowed = FALSE
    /\ \A r \in PairRequests : Own(rateLimitStore, getClientIdentifier(r))
    /\ \E r \in PairRequests :
          rateLimitStore[getClientIdentifier(r)].count
              # rateLimitStore[last.identifier].count

----------------------------------------------------------------------------
(* Properties of the parallel execution (SpecPar)                           *)

\* C5 as stated: under parallel execution at most one request more than
\* maxRequests is admitted in a window.
C5_OffByOne == admitted <= ParConfig.maxRequests + 1

\* C5, amended: under parallel execution two requests can both read a stale
\* count and both be admitted, and the races can repeat in a window: the
\* number admitted exceeds maxRequests by no more than the number of
\* increments that stale writes have undone, which can be more than one.
C5_OvershootIsLostWrites == admitted <= ParConfig.maxRequests + lost

\* two workers read the same count, both were admitted, and with an earlier
\* race the window has admitted two more than maxRequests
C5_Witness ==
    /\ admitted = ParConfig.maxRequests + 2
    /\ \A w \in Workers : pc[w] = "idle" /\ loc[w].count = ParConfig.maxRequests - 1
    /\ rateLimitStore[ParId].count = ParConfig.maxRequests
    /\ last.result.allowed

----------------------------------------------------------------------------
(* The limiter beside a copy of itself whose timer never fires              *)

\* the same checkRateLimit call made on both stores at the same clock value
CheckBoth(request, c) ==
    LET identifier == getClientIdentifier(request)
        out        == checkRateLimit(unswept.store, request, ConfigOf(c), now)
    IN  /\ Call(request, c, MaxCount)
        /\ unswept' = [store |-> out.store,
                       last  |-> [op |-> "check",
                                  prior  |-> IF Expired(unswept.store, identifier, now)
                                             THEN unswept.store[identifier].count
                                             ELSE 0,
                                  result |-> out.result]]
        /\ UNCHANGED <<siteVars, trace, derived, token, verdict, db, resp>>

NextUnswept ==
    \/ \E request \in SoloRequests, c \in Callers : CheckBoth(request, c)
    \/ Sweep
    \/ Tick

SpecUnswept == Init /\ [][NextUnswept]_vars

\* C11: the sweep is invisible to callers.  The swept store and the store that
\* is never swept have answered the latest call with the same object, and
\* they answer every call made now or at any later clock value with the same
\* object, whatever the client and the endpoint class.
C11_SweepInvisible ==
    /\ last.op = "check" => unswept.last.result = last.result
    /\ \A request \in SoloRequests, c \in Callers, t \in Readings :
         t >= now =>
           checkRateLimit(rateLimitStore, request, ConfigOf(c), t).result
             = checkRateLimit(unswept.store, request, ConfigOf(c), t).result

\* a call opened a window on a key the sweep had deleted, while the unswept
\* store replaced the expired entry it still held
C11_Witness ==
    /\ last.op = "check"
    /\ last.opened
    /\ last.prior = 0
    /\ unswept.last.prior > 0

----------------------------------------------------------------------------
(* The limiter with a timer that keeps firing and a clock that keeps going  *)

\* setInterval fires the callback again and again, and Date.now() does not
\* stand still
SpecFair == Init /\ [][Next]_vars /\ WF_vars(Sweep) /\ WF_vars(Tick)

\* the reset times the clock of the model gets past
PassingResets ==
    { r \in { t + WindowMs(c) : t \in Readings, c \in Callers } :
        \E t \in Readings : r < t }

\* C12: an entry whose reset time the clock gets past does not stay: the sweep
\* deletes it, unless a check of its key has replaced it before.  A sweep at
\* time now leaves no entry with resetAt < now and leaves every other entry
\* as it was.
C12_SweepRemovesExpired ==
    /\ \A request \in SoloRequests, r \in PassingResets :
         LET identifier == getClientIdentifier(request)
         IN  (Own(rateLimitStore, identifier)
                /\ rateLimitStore[identifier].resetAt = r)
             ~> (~Own(rateLimitStore, identifier)
                   \/ rateLimitStore[identifier].resetAt # r)
    /\ [][Sweep =>
            /\ \A k \in DOMAIN rateLimitStore' : ~(rateLimitStore'[k].resetAt < now)
            /\ \A k \in DOMAIN rateLimitStore :
                 ~(rateLimitStore[k].resetAt < now) =>
                    /\ k \in DOMAIN rateLimitStore'
                    /\ rateLimitStore'[k] = rateLimitStore[k]]_vars

\* the key of the latest counted call has no entry any more: the sweep has
\* deleted it
C12_Witness ==
    /\ last.op = "check"
    /\ last.count >= 1
    /\ now > 0
    /\ ~Own(rateLimitStore, last.identifier)

----------------------------------------------------------------------------
(* getClientIdentifier over the headers a request can carry                 *)

\* values headers.get returns: the empty string, one address, a proxy chain,
\* a chain whose first element is empty, an element with a blank inside,
\* an element followed by blanks, and a user agent
HeaderValues ==
    { <<>>,
      <<"1.2.3.4">>,
      <<"1.2.3.4", Blank, Comma, Blank, "9.9.9.9">>,
      <<Comma, "9.9.9.9">>,
      <<"1.2.3.4", Blank, "x", Blank, Blank, Comma>>,
      <<"5.6.7.8">>,
      <<"Mozilla", Blank, "5.0">> }

HeaderNames == <<"x-forwarded-for", "x-real-ip", "user-agent">>

\* a header map: every header is absent or holds one of the values
HeaderRequests ==
    { [n \in names |-> f[n]] :
        names \in SUBSET {"x-forwarded-for", "x-real-ip", "user-agent"},
        f \in [{"x-forwarded-for", "x-real-ip", "user-agent"} -> HeaderValues] }

Derive(request) ==
    /\ derived' = [op |-> "derive", request |-> request,
                   identifier |-> getClientIdentifier(request)]
    /\ UNCHANGED <<siteVars, rateLimitStore, now, last, trace, parVars,
                   unswept, token, verdict, db, resp>>

NextDerive == \E request \in HeaderRequests : Derive(request)

SpecDerive == Init /\ [][NextDerive]_vars

\* the header is there and is not the empty string
Present(request, name) == name \in DOMAIN request /\ Len(request[name]) > 0

\* k is what is left of the tokens of v before its first comma once the
\* blanks at both ends are dropped
IsTrimmedFirstElement(k, v) ==
    \E i \in 0 .. Len(v) :
        /\ \A j \in 1 .. i : v[j] # Comma
        /\ i = Len(v) \/ v[i + 1] = Comma
        /\ \E a \in 0 .. i :
             /\ a + Len(k) <= i
             /\ \A j \in 1 .. a : v[j] = Blank
             /\ \A j \in a + Len(k) + 1 .. i : v[j] = Blank
             /\ k = SubSeq(v, a + 1, a + Len(k))
             /\ Len(k) > 0 => k[1] # Blank /\ k[Len(k)] # Blank

\* r2 carries the first n headers of the precedence order exactly as r does
SameUpTo(r, r2, n) ==
    \A i \in 1 .. n :
        /\ HeaderNames[i] \in DOMAIN r <=> HeaderNames[i] \in DOMAIN r2
        /\ HeaderNames[i] \in DOMAIN r => r[HeaderNames[i]] = r2[HeaderNames[i]]

\* C13: the key is the trimmed first comma-separated element of
\* X-Forwarded-For when that header is present and not empty, else X-Real-IP
\* when present and not empty, else User-Agent when present and not empty,
\* else "unknown"; requests that agree on the headers down to the deciding
\* one get the same key whatever their lower-priority headers hold.
C13_KeyPrecedence ==
    derived.op = "derive" =>
      LET r == derived.request
          k == derived.identifier
          rank == IF Present(r, "x-forwarded-for") THEN 1
                  ELSE IF Present(r, "x-real-ip") THEN 2
                  ELSE IF Present(r, "user-agent") THEN 3
                  ELSE 4
      IN  /\ rank = 1 => IsTrimmedFirstElement(k, r["x-forwarded-for"])
          /\ rank = 2 => k = r["x-real-ip"]
          /\ rank = 3 => k = r["user-agent"]
          /\ rank = 4 => k = <<"unknown">>
          /\ rank < 4 =>
               \A r2 \in HeaderRequests :
                   SameUpTo(r, r2, rank) => getClientIdentifier(r2) = k

\* a proxy chain with blanks around its first element, sent together with
\* both lower-priority headers
C13_Witness ==
    /\ derived.op = "derive"
    /\ DOMAIN derived.request = {"x-forwarded-for", "x-real-ip", "user-agent"}
    /\ derived.request["x-forwarded-for"]
         = <<"1.2.3.4", Blank, Comma, Blank, "9.9.9.9">>
    /\ derived.request["x-real-ip"] = <<"5.6.7.8">>
    /\ derived.identifier = <<"1.2.3.4">>

----------------------------------------------------------------------------
(* The token library: generateToken and verifyToken                         *)
(*                                                                         *)
(* A compact token is its protected header, the members of its JSON payload *)
(* and its signature.  The signature is the triple it was computed from: an *)
(* ideal MAC, equal for equal key, header and payload and for nothing else. *)
(* The claims iat and exp are seconds, the clock is milliseconds.           *)

\* most milliseconds that pass between two clock reads of one generateToken
MaxElapsed == 1

\* secs('24h')
DaySeconds == 86400

\* the key of lines 4-6 and a key that is not it
Secret == "JWT_SECRET"
OtherKey == "another key"

\* epoch(new Date()): the clock in whole seconds
Epoch(t) == t \div 1000

\* the order in which the properties of a payload are created
PayloadKeys == <<"userId", "username", "email", "iat", "exp">>

NumericKeys == {"iat", "exp"}

\* a serialisation that leaves the e-mail address out
M_ToJsonDropsEmail(obj) ==
    LET F[i \in 0 .. Len(PayloadKeys)] ==
          IF i = 0 THEN <<>>
          ELSE LET k == PayloadKeys[i]
               IN  IF k \notin DOMAIN obj \/ k = "email" THEN F[i - 1]
                   ELSE IF k \in NumericKeys
                   THEN Append(F[i - 1], [key |-> k, num |-> obj[k]])
                   ELSE Append(F[i - 1], [key |-> k, str |-> obj[k]])
    IN  F[Len(PayloadKeys)]

\* JSON.stringify of a payload object: its members in creation order; a
\* property that is undefined (here: absent) has no member
ToJson(obj) ==
    LET F[i \in 0 .. Len(PayloadKeys)] ==
          IF i = 0 THEN <<>>
          ELSE LET k == PayloadKeys[i]
               IN  IF k \notin DOMAIN obj THEN F[i - 1]
                   ELSE IF k \in NumericKeys
                   THEN Append(F[i - 1], [key |-> k, num |-> obj[k]])
                   ELSE Append(F[i - 1], [key |-> k, str |-> obj[k]])
    IN  F[Len(PayloadKeys)]

\* JSON.parse of the members: the object they describe (a later member of
\* the same name wins)
FromJson(members) ==
    [k \in { members[i].key : i \in DOMAIN members } |->
        LET i == CHOOSE i \in DOMAIN members :
                   /\ members[i].key = k
                   /\ \A j \in DOMAIN members : members[j].key = k => j <= i
        IN  IF "num" \in DOMAIN members[i] THEN members[i].num ELSE members[i].str]

\* HMAC over the header and the payload
Mac(key, header, payload) == [key |-> key, header |-> header, payload |-> payload]

\* a token that lives one hour
M_generateTokenOneHour(payload, t1, t2) ==
    LET header  == [alg |-> "HS256"]
        claims  == ("exp" :> Epoch(t2) + 3600) @@ ("iat" :> Epoch(t1)) @@ payload
        members == ToJson(claims)
    IN  [header |-> header, payload |-> members, sig |-> Mac(Secret, header, members)]

\* generateToken(payload) when setIssuedAt reads the clock at t1 and
\* setExpirationTime('24h') reads it at t2
generateToken(payload, t1, t2) ==
    LET header  == [alg |-> "HS256"]
        claims  == ("exp" :> Epoch(t2) + DaySeconds) @@ ("iat" :> Epoch(t1)) @@ payload
        members == ToJson(claims)
    IN  [header |-> header, payload |-> members, sig |-> Mac(Secret, header, members)]

\* a string: the characters it starts with, followed by a compact token when
\* it has a body
Str(tok) == [chars |-> <<>>, body |-> tok]

\* what verifyToken and getTokenFromRequest return for "no claim"
Null == [null |-> TRUE]

\* the algorithms jwtVerify accepts with a secret key
HmacAlgs == {"HS256", "HS384", "HS512"}

\* jwtVerify(token, key) at clock t: the payload, or the error it throws
jwtVerify(str, key, t) ==
    IF str.chars # <<>> \/ "body" \notin DOMAIN str
    THEN [threw |-> "JWSInvalid"]
    ELSE LET tok == str.body
         IN  IF DOMAIN tok # {"header", "payload", "sig"}
             THEN [threw |-> "JWSInvalid"]
             ELSE IF tok.header.alg \notin HmacAlgs
             THEN [threw |-> "JOSEAlgNotAllowed"]
             ELSE IF tok.sig # Mac(key, tok.header, tok.payload)
             THEN [threw |-> "JWSSignatureVerificationFailed"]
             ELSE LET claims == FromJson(tok.payload)
                  IN  IF "exp" \in DOMAIN claims /\ claims["exp"] <= Epoch(t)
                      THEN [threw |-> "JWTExpired"]
                      ELSE [payload |-> claims]

\* a catch clause that lets the payload of an expired token through
M_verifyTokenExpiredPasses(str, t) ==
    LET r == jwtVerify(str, Secret, t)
    IN  IF "threw" \notin DOMAIN r THEN r.payload
        ELSE IF r.threw = "JWTExpired" THEN FromJson(str.body.payload)
        ELSE Null

\* verifyToken(token) at clock t: try { jwtVerify } catch { return null }
verifyToken(str, t) ==
    LET r == jwtVerify(str, Secret, t)
    IN  IF "threw" \in DOMAIN r THEN Null ELSE r.payload

----------------------------------------------------------------------------
(* The token library: getTokenFromRequest and requireAuth                   *)

\* the characters of 'Bearer '
BearerPrefix == <<"B", "e", "a", "r", "e", "r", " ">>

\* !authHeader: the header is absent or the empty string
NoHeader(request) ==
    \/ "authorization" \notin DOMAIN request
    \/ /\ request["authorization"].chars = <<>>
       /\ "body" \notin DOMAIN request["authorization"]

\* String.prototype.startsWith
StartsWith(str, prefix) ==
    /\ Len(str.chars) >= Len(prefix)
    /\ SubSeq(str.chars, 1, Len(prefix)) = prefix

\* String.prototype.substring(n), n within the leading characters
Substring(str, n) ==
    IF "body" \in DOMAIN str
    THEN [chars |-> SubSeq(str.chars, n + 1, Len(str.chars)), body |-> str.body]
    ELSE [chars |-> SubSeq(str.chars, n + 1, Len(str.chars))]

\* a header test that ignores the case of the scheme
M_getTokenFromRequestAnyCase(request, t) ==
    IF NoHeader(request)
       \/ ~(\/ StartsWith(request["authorization"], BearerPrefix)
            \/ StartsWith(request["authorization"],
                          <<"b", "e", "a", "r", "e", "r", " ">>))
    THEN [calls |-> <<>>, user |-> Null]
    ELSE LET arg == Substring(request["authorization"], 7)
         IN  [calls |-> <<arg>>, user |-> verifyToken(arg, t)]

\* getTokenFromRequest(request) at clock t: the arguments of the verifyToken
\* calls it made, and what it returns
getTokenFromRequest(request, t) ==
    IF NoHeader(request) \/ ~StartsWith(request["authorization"], BearerPrefix)
    THEN [calls |-> <<>>, user |-> Null]
    ELSE LET arg == Substring(request["authorization"], 7)
         IN  [calls |-> <<arg>>, user |-> verifyToken(arg, t)]

Unauthorized == "Unauthorized - Invalid or missing token"

\* a guard that tells the caller why it refused
M_requireAuthTellsWhy(request, t) ==
    LET user == getTokenFromRequest(request, t).user
    IN  IF user = Null
        THEN [authorized |-> FALSE,
              error |-> IF NoHeader(request) THEN "Missing token" ELSE Unauthorized]
        ELSE [authorized |-> TRUE, user |-> user]

\* requireAuth(request) at clock t
requireAuth(request, t) ==
    LET user == getTokenFromRequest(request, t).user
    IN  IF user = Null
        THEN [authorized |-> FALSE, error |-> Unauthorized]
        ELSE [authorized |-> TRUE, user |-> user]

----------------------------------------------------------------------------
(* Issuing tokens and presenting them                                       *)

\* the payloads the login route passes: an administrator with an e-mail
\* address and one whose e-mail property is undefined
Payloads ==
    { [userId |-> "64a1", username |-> "admin", email |-> "admin@example.com"],
      [userId |-> "64b2", username |-> "editor"] }

\* clock values around the issue and around the end of the twenty-four hours
TokenReadings == {0, 999, 86399000, 86399999, 86400000, 86401000, 86402000}

\* the payload of tok with its expiry moved a day on, under the old signature
Extended(tok) ==
    LET claims == FromJson(tok.payload)
    IN  [tok EXCEPT !.payload =
            ToJson(("exp" :> claims["exp"] + DaySeconds) @@ claims)]

\* tok signed again with a key that is not the server's
Resigned(tok) == [tok EXCEPT !.sig = Mac(OtherKey, tok.header, tok.payload)]

\* tok declared unsigned
Unsigned(tok) ==
    [header |-> [alg |-> "none"], payload |-> tok.payload,
     sig |-> Mac("", [alg |-> "none"], tok.payload)]

\* a token made without the server: any payload, any expiry, the other key
Crafted ==
    LET header  == [alg |-> "HS256"]
        members == ToJson([userId |-> "64a1", username |-> "admin",
                           iat |-> 0, exp |-> 10 * DaySeconds])
    IN  [header |-> header, payload |-> members,
         sig |-> Mac(OtherKey, header, members)]

\* text that is no compact token, and the empty string
Garbage == [chars |-> <<"n", "o", "t", ".", "j", "w", "t">>]
EmptyString == [chars |-> <<>>]

\* the strings a client can send, given the token the server has issued
Presentable ==
    {Str(Crafted), Garbage, EmptyString}
      \cup (IF token = NoToken THEN {}
            ELSE { Str(token.value), Str(Extended(token.value)),
                   Str(Resigned(token.value)), Str(Unsigned(token.value)) })

\* what the header value starts with: the scheme as the code expects it, in
\* lower case, without its blank, with two blanks, another scheme, nothing
Schemes ==
    { BearerPrefix,
      <<"b", "e", "a", "r", "e", "r", " ">>,
      <<"B", "e", "a", "r", "e", "r">>,
      <<"B", "e", "a", "r", "e", "r", " ", " ">>,
      <<"B", "a", "s", "i", "c", " ">>,
      <<>> }

Prepend(prefix, str) == [str EXCEPT !.chars = prefix \o str.chars]

\* the requests a client can send: no Authorization header, or a scheme
\* followed by a presentable string
AuthRequests ==
    {ReqDirect}
      \cup { ReqDirect @@ ("authorization" :> Prepend(p, str)) :
               p \in Schemes, str \in Presentable }

\* generateToken: d milliseconds pass between its two clock reads
Issue(payload, d) ==
    /\ token = NoToken
    /\ token' = [op |-> "issue", payload |-> payload, at |-> now, elapsed |-> d,
                 value |-> generateToken(payload, now, now + d)]
    /\ now' = now + d
    /\ UNCHANGED <<siteVars, rateLimitStore, last, trace, parVars,
                   unswept, derived, verdict, db, resp>>

Verify(str) ==
    /\ verdict' = [op |-> "verify", str |-> str, at |-> now,
                   result |-> verifyToken(str, now)]
    /\ UNCHANGED <<siteVars, rateLimitStore, now, last, trace, parVars,
                   unswept, derived, token, db, resp>>

\* requireAuth and the getTokenFromRequest call inside it
Require(request) ==
    /\ verdict' = [op |-> "require", request |-> request, at |-> now,
                   calls |-> getTokenFromRequest(request, now).calls,
                   user |-> getTokenFromRequest(request, now).user,
                   out |-> requireAuth(request, now)]
    /\ UNCHANGED <<siteVars, rateLimitStore, now, last, trace, parVars,
                   unswept, derived, token, db, resp>>

TickToken ==
    /\ \E t \in TokenReadings : t > now /\ now' = t
    /\ UNCHANGED <<siteVars, rateLimitStore, last, trace, parVars, auxVars>>

NextToken ==
    \/ \E payload \in Payloads, d \in 0 .. MaxElapsed : Issue(payload, d)
    \/ \E str \in Presentable : Verify(str)
    \/ \E request \in AuthRequests : Require(request)
    \/ TickToken

SpecToken == Init /\ [][NextToken]_vars

----------------------------------------------------------------------------
(* Claims about generateToken and verifyToken                               *)

Iat(tok) == FromJson(tok.payload)["iat"]
Exp(tok) == FromJson(tok.payload)["exp"]

\* the latest verifyToken call was given the issued token, unchanged
VerifiedIssued ==
    /\ token.op = "issue"
    /\ verdict.op = "verify"
    /\ verdict.str = Str(token.value)

\* verifyToken answers the issued token with its claim before the day is
\* over and with null after its expiry, and an expiry moved on under the old
\* signature is refused
LifetimeRespected ==
    /\ VerifiedIssued /\ Epoch(verdict.at) < Iat(token.value) + DaySeconds
         => verdict.result = FromJson(token.value.payload)
    /\ VerifiedIssued /\ Epoch(verdict.at) > Exp(token.value)
         => verdict.result = Null
    /\ (/\ token.op = "issue"
        /\ verdict.op = "verify"
        /\ verdict.str = Str(Extended(token.value)))
         => verdict.result = Null

\* C14 as stated: the claim is returned at any time strictly before issued-at
\* plus 24 hours, null is returned after the expiry, the expiry cannot be
\* extended, and the expiry is exactly issued-at plus 24 hours.
C14_ExpiryExactlyADay ==
    /\ LifetimeRespected
    /\ token.op = "issue" => Exp(token.value) = Iat(token.value) + DaySeconds

\* C14 amended: the claim is returned at any time strictly before issued-at
\* plus 24 hours, null is returned after the expiry, and the expiry cannot be
\* extended.  The expiry is 24 hours after the second of the two clock reads
\* of generateToken: it is never less than issued-at plus 24 hours, and it is
\* exactly that when both reads fall in the same second.
C14_ExpiryAtLeastADay ==
    /\ LifetimeRespected
    /\ token.op = "issue" =>
         /\ Iat(token.value) = Epoch(token.at)
         /\ Exp(token.value) = Epoch(token.at + token.elapsed) + DaySeconds
         /\ Exp(token.value) >= Iat(token.value) + DaySeconds
         /\ Epoch(token.at + token.elapsed) = Epoch(token.at)
              => Exp(token.value) = Iat(token.value) + DaySeconds

\* a token whose two clock reads fell in different seconds, verified after
\* its expiry
C14_Witness ==
    /\ VerifiedIssued
    /\ Exp(token.value) = Iat(token.value) + DaySeconds + 1
    /\ Epoch(verdict.at) > Exp(token.value)
    /\ verdict.result = Null

\* C15: verifyToken(generateToken(C)) called as soon as the token exists
\* returns userId, username and email as they are in C (a property C does
\* not have is not returned either), with iat <= now <= exp in seconds.
C15_RoundTrip ==
    VerifiedIssued /\ verdict.at = token.at + token.elapsed =>
        /\ verdict.result # Null
        /\ \A k \in {"userId", "username", "email"} :
             /\ k \in DOMAIN verdict.result <=> k \in DOMAIN token.payload
             /\ k \in DOMAIN token.payload => verdict.result[k] = token.payload[k]
        /\ verdict.result["iat"] <= Epoch(verdict.at)
        /\ Epoch(verdict.at) <= verdict.result["exp"]

\* the administrator's token verified at the instant it was issued
C15_Witness ==
    /\ VerifiedIssued
    /\ verdict.at = token.at + token.elapsed
    /\ "email" \in DOMAIN token.payload
    /\ verdict.result # Null
    /\ verdict.result["email"] = "admin@example.com"

\* the string given to verifyToken is no token, or is a token the server's
\* key did not sign as it stands, or is the issued token at or after its expiry
Unusable ==
    \/ verdict.str \in {Garbage, EmptyString, Str(Crafted)}
    \/ /\ token.op = "issue"
       /\ verdict.str \in { Str(Extended(token.value)), Str(Resigned(token.value)),
                            Str(Unsigned(token.value)) }
    \/ /\ token.op = "issue"
       /\ verdict.str = Str(token.value)
       /\ Epoch(verdict.at) >= Exp(token.value)

\* C16: verifyToken throws nothing.  It returns null for a malformed string,
\* for an altered payload, for a signature made with another key, for an
\* unsigned token and for an expired token alike; otherwise it returns the
\* payload.
C16_NullOnEveryFailure ==
    verdict.op = "verify" =>
        /\ "threw" \notin DOMAIN verdict.result
        /\ Unusable => verdict.result = Null
        /\ ~Unusable => verdict.result = FromJson(verdict.str.body.payload)

\* the issued token, signed again with another key, was refused
C16_Witness ==
    /\ token.op = "issue"
    /\ verdict.op = "verify"
    /\ verdict.str = Str(Resigned(token.value))
    /\ verdict.result = Null

----------------------------------------------------------------------------
(* Claims about getTokenFromRequest and requireAuth                         *)

\* the request has an Authorization header whose first seven characters are
\* B e a r e r and one blank
ExactBearer(request) ==
    /\ "authorization" \in DOMAIN request
    /\ Len(request["authorization"].chars) >= 7
    /\ request["authorization"].chars[1] = "B"
    /\ request["authorization"].chars[2] = "e"
    /\ request["authorization"].chars[3] = "a"
    /\ request["authorization"].chars[4] = "r"
    /\ request["authorization"].chars[5] = "e"
    /\ request["authorization"].chars[6] = "r"
    /\ request["authorization"].chars[7] = " "

\* C17: without an Authorization header, or with a value that does not start
\* with exactly "Bearer ", the request is refused and verifyToken is not
\* called; with that prefix verifyToken is called once, on the value without
\* its first seven characters.
C17_VerifyOnlyBehindBearer ==
    verdict.op = "require" =>
        /\ ~ExactBearer(verdict.request) =>
             /\ verdict.calls = <<>>
             /\ verdict.user = Null
             /\ ~verdict.out.authorized
        /\ ExactBearer(verdict.request) =>
             /\ Len(verdict.calls) = 1
             /\ Prepend(BearerPrefix, verdict.calls[1])
                  = verdict.request["authorization"]

\* the issued token, still valid, sent with the scheme in lower case: refused
\* without a verifyToken call
C17_Witness ==
    /\ token.op = "issue"
    /\ verdict.op = "require"
    /\ Epoch(verdict.at) < Exp(token.value)
    /\ "authorization" \in DOMAIN verdict.request
    /\ verdict.request["authorization"]
         = Prepend(<<"b", "e", "a", "r", "e", "r", " ">>, Str(token.value))
    /\ verdict.calls = <<>>
    /\ ~verdict.out.authorized

\* the request carries "Bearer " followed by the issued token, not yet expired
CarriesValidToken ==
    /\ token.op = "issue"
    /\ "authorization" \in DOMAIN verdict.request
    /\ verdict.request["authorization"] = Prepend(BearerPrefix, Str(token.value))
    /\ Epoch(verdict.at) < Exp(token.value)

\* C18: requireAuth answers authorized = true exactly when getTokenFromRequest
\* yields a claim (the request carries a valid token), and then returns that
\* claim and no error; otherwise it answers authorized = false with no claim
\* and the error "Unauthorized - Invalid or missing token".
C18_GuardResult ==
    verdict.op = "require" =>
        /\ verdict.out.authorized <=> verdict.user # Null
        /\ verdict.out.authorized <=> CarriesValidToken
        /\ verdict.out.authorized =>
             verdict.out = [authorized |-> TRUE,
                            user |-> FromJson(token.value.payload)]
        /\ ~verdict.out.authorized =>
             verdict.out = [authorized |-> FALSE,
                            error |-> "Unauthorized - Invalid or missing token"]

\* the administrator was let in
C18_Witness ==
    /\ verdict.op = "require"
    /\ verdict.out.authorized
    /\ verdict.out.user["username"] = "admin"

----------------------------------------------------------------------------
(* The protected route handlers                                             *)

\* the _id values of documents and the public ids of images
DocIds == {1}
ImageIds == {1}

\* the POST, PUT and DELETE handlers of the five collections, and POST and
\* DELETE of the upload route
Handlers ==
    { [resource |-> c, method |-> m] :
        c \in Collections, m \in {"POST", "PUT", "DELETE"} }
      \cup { [resource |-> "upload", method |-> m] : m \in {"POST", "DELETE"} }

\* the RATE_LIMITS entry a handler passes to checkRateLimit
ClassOf(h) ==
    IF h.resource = "upload" /\ h.method = "POST" THEN "upload" ELSE "api"

\* what a request carries beside its headers: whether its body (or file)
\* passes validation, the _id, ?id= or publicId it names (0: none), the image
\* it refers to (0: none), and whether the image host answers
Inputs ==
    [valid : BOOLEAN, id : {0} \cup DocIds, image : {0} \cup ImageIds, host : BOOLEAN]

\* a request whose body names nothing, is valid and meets a host that answers
PlainInput == [valid |-> TRUE, id |-> 0, image |-> 0, host |-> TRUE]

\* the parts of the input the handler h reads
Reads(h) ==
    IF h.resource = "upload"
    THEN IF h.method = "POST" THEN {"valid", "host"} ELSE {"image", "host"}
    ELSE IF h.resource = "projects"
    THEN IF h.method = "POST" THEN {"valid", "image"}
         ELSE IF h.method = "PUT" THEN {"valid", "id", "image", "host"}
         ELSE {"id", "host"}
    ELSE IF h.method = "POST" THEN {"valid"}
    ELSE IF h.method = "PUT" THEN {"valid", "id"}
    ELSE {"id"}

\* the inputs that differ only in what h reads
InputsOf(h) ==
    { input \in Inputs :
        \A f \in DOMAIN PlainInput \ Reads(h) : input[f] = PlainInput[f] }

\* a handler run after its gates: the database it leaves, the reads, writes
\* and host calls it made, and its response; full marks an insert for which
\* the model has no room
Answer(d, steps, status, body) ==
    [db |-> d, steps |-> steps, status |-> status, body |-> body, full |-> FALSE]

Failure(error) == [success |-> FALSE, error |-> error]

Found(d, c, id) == \E doc \in d.docs : doc.coll = c /\ doc.id = id

DocOf(d, c, id) == CHOOSE doc \in d.docs : doc.coll = c /\ doc.id = id

\* the _id insertOne gives the new document (0: the model has no room)
FreshId(d, c) ==
    IF Cardinality(d.docs) < Cardinality(DocIds)
    THEN CHOOSE i \in DocIds : ~Found(d, c, i)
    ELSE 0

\* the public id the host gives an uploaded image (0: the model has no room)
FreshImage(d) ==
    IF \E i \in ImageIds : i \notin d.images
    THEN CHOOSE i \in ImageIds : i \notin d.images
    ELSE 0

\* cloudinary.uploader.destroy(publicId) when the host answers
Destroy(d, image, host) ==
    IF host THEN [d EXCEPT !.images = @ \ {image}] ELSE d

\* POST of a collection after the gates
Create(c, input, d) ==
    LET steps == IF c = "interests" THEN <<"json">> ELSE <<"json", "validate">>
        id    == FreshId(d, c)
        doc   == [coll |-> c, id |-> id,
                  image |-> IF c = "projects" THEN input.image ELSE 0]
    IN  IF c # "interests" /\ ~input.valid
        THEN Answer(d, steps, 400,
                    Failure(IF c = "projects" THEN "Invalid input"
                            ELSE "Validation failed"))
        ELSE IF id = 0
        THEN [Answer(d, steps, 500, Failure("no room")) EXCEPT !.full = TRUE]
        ELSE Answer([d EXCEPT !.docs = @ \cup {doc}],
                    Append(steps, "insertOne"),
                    IF c = "interests" THEN 200 ELSE 201,
                    [success |-> TRUE])

\* updateOne({ _id }, { $set }) and the response that follows it
UpdateOne(c, input, d, steps) ==
    IF ~Found(d, c, input.id)
    THEN Answer(d, Append(steps, "updateOne"), 404, Failure("not found"))
    ELSE LET old == DocOf(d, c, input.id)
             new == IF c = "projects" /\ input.image # 0
                    THEN [old EXCEPT !.image = input.image]
                    ELSE old
         IN  Answer([d EXCEPT !.docs = (@ \ {old}) \cup {new}],
                    Append(steps, "updateOne"), 200, [success |-> TRUE])

\* PUT of a collection after the gates
Update(c, input, d) ==
    IF c = "interests"
    THEN IF input.id = 0
         THEN Answer(d, <<"json">>, 400, Failure("ID is required"))
         ELSE UpdateOne(c, input, d, <<"json">>)
    ELSE IF c = "projects"
    THEN IF input.id = 0
         THEN Answer(d, <<"json">>, 400, Failure("ID is required"))
         ELSE IF ~input.valid
         THEN Answer(d, <<"json", "validate">>, 400, Failure("Invalid input"))
         ELSE IF input.image = 0
         THEN UpdateOne(c, input, d, <<"json", "validate">>)
         ELSE IF /\ Found(d, c, input.id)
                 /\ DocOf(d, c, input.id).image \notin {0, input.image}
         THEN UpdateOne(c, input,
                        Destroy(d, DocOf(d, c, input.id).image, input.host),
                        <<"json", "validate", "findOne", "destroy">>)
         ELSE UpdateOne(c, input, d, <<"json", "validate", "findOne">>)
    ELSE IF ~input.valid
    THEN Answer(d, <<"json", "validate">>, 400, Failure("Validation failed"))
    ELSE IF input.id = 0
    THEN Answer(d, <<"json", "validate">>, 400, Failure("ID is required"))
    ELSE UpdateOne(c, input, d, <<"json", "validate">>)

\* variant: a project is kept when its image could not be deleted
M_DeleteStopsOnHostFailure(c, input, d) ==
    IF input.id = 0
    THEN Answer(d, <<>>, 400, Failure("ID is required"))
    ELSE IF ~Found(d, c, input.id)
    THEN Answer(d, <<"findOne">>, 404, Failure("Project not found"))
    ELSE LET doc == DocOf(d, c, input.id)
         IN  IF doc.image # 0 /\ ~input.host
             THEN Answer(d, <<"findOne", "destroy">>, 500,
                         Failure("Failed to delete project"))
             ELSE Answer([Destroy(d, doc.image, input.host) EXCEPT !.docs = @ \ {doc}],
                         <<"findOne", "destroy", "deleteOne">>, 200,
                         [success |-> TRUE])

\* DELETE of a collection after the gates
Delete(c, input, d) ==
    IF input.id = 0
    THEN Answer(d, <<>>, 400, Failure("ID is required"))
    ELSE IF c = "projects"
    THEN IF ~Found(d, c, input.id)
         THEN Answer(d, <<"findOne">>, 404, Failure("Project not found"))
         ELSE LET doc == DocOf(d, c, input.id)
              IN  IF doc.image = 0
                  THEN Answer([d EXCEPT !.docs = @ \ {doc}],
                              <<"findOne", "deleteOne">>, 200, [success |-> TRUE])
                  ELSE Answer([Destroy(d, doc.image, input.host)
                                 EXCEPT !.docs = @ \ {doc}],
                              <<"findOne", "destroy", "deleteOne">>, 200,
                              [success |-> TRUE])
    ELSE IF ~Found(d, c, input.id)
    THEN Answer(d, <<"deleteOne">>, 404, Failure("not found"))
    ELSE Answer([d EXCEPT !.docs = @ \ {DocOf(d, c, input.id)}],
                <<"deleteOne">>, 200, [success |-> TRUE])

\* POST of the upload route after the gates
Upload(input, d) ==
    IF ~input.valid
    THEN Answer(d, <<"formData">>, 400, [error |-> "No file provided or invalid file"])
    ELSE IF ~input.host
    THEN Answer(d, <<"formData", "upload">>, 500, [error |-> "Failed to upload image"])
    ELSE IF FreshImage(d) = 0
    THEN [Answer(d, <<"formData">>, 500, [error |-> "no room"]) EXCEPT !.full = TRUE]
    ELSE Answer([d EXCEPT !.images = @ \cup {FreshImage(d)}],
                <<"formData", "upload">>, 200, [success |-> TRUE])

\* DELETE of the upload route after the gates
Remove(input, d) ==
    IF input.image = 0
    THEN Answer(d, <<"json">>, 400, [error |-> "No public ID provided"])
    ELSE IF input.host /\ input.image \in d.images
    THEN Answer(Destroy(d, input.image, input.host),
                <<"json", "destroy">>, 200, [success |-> TRUE])
    ELSE Answer(d, <<"json", "destroy">>, 500, [error |-> "Failed to delete image"])

Downstream(h, input, d) ==
    IF h.resource = "upload"
    THEN IF h.method = "POST" THEN Upload(input, d) ELSE Remove(input, d)
    ELSE IF h.method = "POST" THEN Create(h.resource, input, d)
    ELSE IF h.method = "PUT" THEN Update(h.resource, input, d)
    ELSE Delete(h.resource, input, d)

\* a handler that counts the request before it looks at the token
M_handleLimitFirst(h, request, input, st, d, t) ==
    LET a  == requireAuth(request, t)
        rl == checkRateLimit(st, request, ConfigOf(ClassOf(h)), t)
    IN  IF ~rl.result.allowed
        THEN [store |-> rl.store, db |-> d, steps |-> <<"checkRateLimit">>,
              status |-> 429, body |-> Failure(rl.result.error), full |-> FALSE]
        ELSE IF ~a.authorized
        THEN [store |-> rl.store, db |-> d,
              steps |-> <<"checkRateLimit", "requireAuth">>,
              status |-> 401, body |-> Failure(a.error), full |-> FALSE]
        ELSE LET down == Downstream(h, input, d)
             IN  [store |-> rl.store, db |-> down.db,
                  steps |-> <<"checkRateLimit", "requireAuth">> \o down.steps,
                  status |-> down.status, body |-> down.body, full |-> down.full]

\* a protected handler run at clock t on store st and database d: what it
\* leaves, the calls it made in order, and its response
handle(h, request, input, st, d, t) ==
    LET a == requireAuth(request, t)
    IN  IF ~a.authorized
        THEN [store |-> st, db |-> d, steps |-> <<"requireAuth">>,
              status |-> 401, body |-> Failure(a.error), full |-> FALSE]
        ELSE LET rl == checkRateLimit(st, request, ConfigOf(ClassOf(h)), t)
             IN  IF ~rl.result.allowed
                 THEN [store |-> rl.store, db |-> d,
                       steps |-> <<"requireAuth", "checkRateLimit">>,
                       status |-> 429, body |-> Failure(rl.result.error),
                       full |-> FALSE]
                 ELSE LET down == Downstream(h, input, d)
                      IN  [store |-> rl.store, db |-> down.db,
                           steps |-> <<"requireAuth", "checkRateLimit">> \o down.steps,
                           status |-> down.status, body |-> down.body,
                           full |-> down.full]

\* handlers are not offered once the client's count has reached this value
MaxRouteCount == 3

\* the administrator who logs in
Admin == [userId |-> "64a1", username |-> "admin", email |-> "admin@example.com"]

\* the clock when the administrator logs in and a day later
RouteReadings == {0, 86400000}

LowerCaseScheme == <<"b", "e", "a", "r", "e", "r", " ">>

WithAuthorization(str) == ReqDirect @@ ("authorization" :> str)

\* the requests of one client: without Authorization header, with the wrong
\* scheme, with a malformed token, with a forged token, and with the token
\* the server issued
RouteRequests ==
    { ReqDirect,
      WithAuthorization(Prepend(LowerCaseScheme,
                                Str(IF token = NoToken THEN Crafted ELSE token.value))),
      WithAuthorization(Prepend(BearerPrefix, Garbage)),
      WithAuthorization(Prepend(BearerPrefix, Str(Crafted))) }
      \cup (IF token = NoToken THEN {}
            ELSE {WithAuthorization(Prepend(BearerPrefix, Str(token.value)))})

\* one request handled from its first line to its response
Handle(h, request, input) ==
    \E out \in {handle(h, request, input, rateLimitStore, db, now)} :
        /\ CountOf(rateLimitStore, getClientIdentifier(request)) < MaxRouteCount
        /\ ~out.full
        /\ rateLimitStore' = out.store
        /\ db' = out.db
        /\ resp' = [op |-> "handle", route |-> h, request |-> request, at |-> now,
                    steps |-> out.steps, status |-> out.status, body |-> out.body,
                    changed |-> out.store # rateLimitStore \/ out.db # db]
        /\ UNCHANGED <<siteVars, now, last, trace, parVars, unswept, derived, token, verdict>>

TickRoute ==
    /\ \E t \in RouteReadings : t > now /\ now' = t
    /\ UNCHANGED <<siteVars, rateLimitStore, last, trace, parVars, auxVars>>

NextRoutes ==
    \/ Issue(Admin, 0)
    \/ \E h \in Handlers, request \in RouteRequests :
         \E input \in IF requireAuth(request, now).authorized
                       THEN InputsOf(h) ELSE {PlainInput} :
             Handle(h, request, input)
    \/ Sweep
    \/ TickRoute

SpecRoutes == Init /\ [][NextRoutes]_vars

----------------------------------------------------------------------------
(* Claims about the protected routes                                        *)

\* the request handled last did not carry "Bearer " followed by the issued
\* token before its expiry: its header is missing, its scheme is wrong, or
\* its token is malformed, forged or expired
Refusable ==
    ~(/\ token.op = "issue"
      /\ resp.request = WithAuthorization(Prepend(BearerPrefix, Str(token.value)))
      /\ Epoch(resp.at) < Exp(token.value))

\* C19: whatever makes the token unusable, every mutating route answers with
\* status 401 and the body {success: false, error: "Unauthorized - Invalid or
\* missing token"}, and leaves the limiter's store, the database and the
\* image host as they were.
C19_UniformRefusal ==
    resp.op = "handle" /\ Refusable =>
        /\ resp.status = 401
        /\ resp.body = [success |-> FALSE,
                        error |-> "Unauthorized - Invalid or missing token"]
        /\ ~resp.changed

\* the issued token, sent as the code expects it but after its expiry, was
\* answered 401
C19_Witness ==
    /\ token.op = "issue"
    /\ resp.op = "handle"
    /\ resp.request = WithAuthorization(Prepend(BearerPrefix, Str(token.value)))
    /\ resp.status = 401

\* C20: in every POST, PUT and DELETE handler of the five collections and of
\* the upload route requireAuth is the first call.  When it does not
\* authorize, the handler makes no other call (no rate-limit check, no body
\* read, no database access, no image-host call) and answers 401; it answers
\* 401 in no other case.
C20_AuthIsFirstGate ==
    resp.op = "handle" =>
        /\ resp.route \in Handlers
        /\ resp.steps[1] = "requireAuth"
        /\ Refusable => resp.steps = <<"requireAuth">> /\ resp.status = 401
        /\ ~Refusable => Len(resp.steps) > 1 /\ resp.status # 401

\* an upload without Authorization header was stopped at the first gate
C20_Witness ==
    /\ resp.op = "handle"
    /\ resp.route = [resource |-> "upload", method |-> "POST"]
    /\ resp.request = ReqDirect
    /\ resp.steps = <<"requireAuth">>
    /\ resp.status = 401

----------------------------------------------------------------------------
(* The window boundary and the length of a block (Spec)                     *)

\* C25: the instant now = resetAt still belongs to the window.  A check made
\* at that instant is counted on the old entry (count + 1, same resetAt, no
\* new window) and is denied when the count had already reached the
\* maxRequests of its configuration; a timer step at that instant keeps the
\* entry; and a timer step never deletes an entry for which a check at the
\* same instant would not start a new window.
C25_BoundaryIsLive ==
    [][\A k \in DOMAIN rateLimitStore :
          LET old == rateLimitStore[k]
          IN  /\ (last' # last /\ last'.identifier = k /\ old.resetAt = now)
                 => /\ ~last'.opened
                    /\ rateLimitStore'[k]
                         = [count |-> old.count + 1, resetAt |-> old.resetAt]
                    /\ old.count >= ConfigOf(last'.caller).maxRequests
                         => last'.result.allowed = FALSE
              /\ (last' = last /\ now' = now /\ old.resetAt = now)
                 => k \in DOMAIN rateLimitStore' /\ rateLimitStore'[k] = old
              /\ (last' = last /\ now' = now /\ ~StartsWindow(rateLimitStore, k, now))
                 => k \in DOMAIN rateLimitStore']_vars

\* a check made at the very instant the window ends was counted on the old
\* entry and denied, and the timer has left the entry in the store
C25_Witness ==
    /\ last.op = "check"
    /\ now > 0
    /\ ~last.opened
    /\ last.result.allowed = FALSE
    /\ Own(rateLimitStore, last.identifier)
    /\ rateLimitStore[last.identifier].resetAt = now
    /\ last.result.resetAt = now
    /\ sweep(rateLimitStore, now) = rateLimitStore

\* the latest check was denied on an entry that is still in the store
DeniedOnEntry ==
    /\ last.op = "check"
    /\ last.result.allowed = FALSE
    /\ Own(rateLimitStore, last.identifier)

\* C26: a check inside a live window changes the entry's count only, never
\* its resetAt; so after a denial the entry still carries the resetAt the
\* window-opening check gave it, and a check of that client at any clock
\* value later than that resetAt is allowed, under every configuration and
\* whatever the count has become.
C26_BlockNotExtended ==
    /\ [][\A k \in DOMAIN rateLimitStore :
            (last' # last /\ last'.identifier = k /\ ~(rateLimitStore[k].resetAt < now))
               => /\ rateLimitStore'[k].resetAt = rateLimitStore[k].resetAt
                  /\ last'.result.resetAt = rateLimitStore[k].resetAt]_vars
    /\ [](DeniedOnEntry =>
            /\ rateLimitStore[last.identifier].resetAt = last.result.resetAt
            /\ \A request \in SoloRequests, c \in Callers, t \in Readings :
                 (/\ getClientIdentifier(request) = last.identifier
                  /\ t > last.result.resetAt)
                    => checkRateLimit(rateLimitStore, request, ConfigOf(c), t)
                         .result.allowed)

\* a client denied several times in a row in a window whose end the clock
\* of the model gets past
C26_Witness ==
    /\ DeniedOnEntry
    /\ last.caller = "login"
    /\ last.count >= RATE_LIMITS.login.maxRequests + 3
    /\ last.result.resetAt = WindowMs("login")
    /\ \E t \in Readings : t > last.result.resetAt

----------------------------------------------------------------------------
(* The routes without requireAuth: login, contact and the public GETs       *)

\* the GET handlers of the five collections, POST /api/auth/login and
\* POST /api/contact
PublicHandlers ==
    { [resource |-> c, method |-> "GET"] : c \in Collections }
      \cup { [resource |-> "login", method |-> "POST"],
             [resource |-> "contact", method |-> "POST"] }

\* the admins collection; no handler writes it
Usernames == {"admin", "ghost"}
Passwords == {"right", "wrong"}

\* a bcrypt hash and bcrypt.compare(password, hash)
Hash(password) == [bcrypt |-> password]
compare(password, hash) == hash = Hash(password)

Admins ==
    { [_id |-> "64a1", username |-> "admin", email |-> "admin@example.com",
       password |-> Hash("right")] }

\* db.collection('admins').findOne({ username })
findOne(username) ==
    IF \E a \in Admins : a.username = username
    THEN CHOOSE a \in Admins : a.username = username
    ELSE Null

\* String(n) of a number: its decimal digits
RECURSIVE Digits(_)
Digits(n) == IF n < 10 THEN <<n>> ELSE Append(Digits(n \div 10), n % 10)

\* String(obj.field); the string of a missing property is "undefined"
StringOf(obj, field) ==
    IF field \in DOMAIN obj THEN Digits(obj[field]) ELSE <<"undefined">>

\* the headers login and contact add to a 429
RateLimitHeaders(c, result) ==
    ("X-RateLimit-Limit" :> StringOf(RATE_LIMITS[c], "maxRequests"))
      @@ ("X-RateLimit-Remaining" :> StringOf(result, "remaining"))
      @@ ("X-RateLimit-Reset" :> StringOf(result, "resetAt"))

NoHeaders == << >>

\* what a handler leaves and answers: the limiter's store, the database, the
\* calls it made in order, status, body and headers of the response, and the
\* token it issued (Null: none)
Reply(st, d, steps, status, body, headers, tok) ==
    [store |-> st, db |-> d, steps |-> steps, status |-> status, body |-> body,
     headers |-> headers, token |-> tok, full |-> FALSE]

\* variant: a login that tells an unknown user from a wrong password
M_loginPOSTTellsWhy(request, input, st, d, t) ==
    LET rl == checkRateLimit(st, request, RATE_LIMITS.login, t)
        admin == findOne(input.username)
    IN  IF ~rl.result.allowed
        THEN Reply(rl.store, d, <<"checkRateLimit">>, 429,
                   Failure(rl.result.error), RateLimitHeaders("login", rl.result), Null)
        ELSE IF ~input.valid
        THEN Reply(rl.store, d, <<"checkRateLimit", "json", "validate">>, 400,
                   Failure("Invalid input"), NoHeaders, Null)
        ELSE IF admin = Null
        THEN Reply(rl.store, d, <<"checkRateLimit", "json", "validate", "findOne">>,
                   404, Failure("User not found"), NoHeaders, Null)
        ELSE IF ~compare(input.password, admin.password)
        THEN Reply(rl.store, d,
                   <<"checkRateLimit", "json", "validate", "findOne", "compare">>,
                   401, Failure("Invalid credentials"), NoHeaders, Null)
        ELSE LET tok == generateToken([userId |-> admin._id,
                                       username |-> admin.username,
                                       email |-> admin.email], t, t)
             IN  Reply(rl.store, d,
                       <<"checkRateLimit", "json", "validate", "findOne", "compare",
                         "generateToken">>,
                       200,
                       [success |-> TRUE, token |-> tok,
                        user |-> [username |-> admin.username, email |-> admin.email]],
                       NoHeaders, tok)

\* POST /api/auth/login handled at clock t; the two clock readings of
\* generateToken fall into the same millisecond as the check
loginPOST(request, input, st, d, t) ==
    LET rl == checkRateLimit(st, request, RATE_LIMITS.login, t)
        admin == findOne(input.username)
    IN  IF ~rl.result.allowed
        THEN Reply(rl.store, d, <<"checkRateLimit">>, 429,
                   Failure(rl.result.error), RateLimitHeaders("login", rl.result), Null)
        ELSE IF ~input.valid
        THEN Reply(rl.store, d, <<"checkRateLimit", "json", "validate">>, 400,
                   Failure("Invalid input"), NoHeaders, Null)
        ELSE IF admin = Null
        THEN Reply(rl.store, d, <<"checkRateLimit", "json", "validate", "findOne">>,
                   401, Failure("Invalid credentials"), NoHeaders, Null)
        ELSE IF ~compare(input.password, admin.password)
        THEN Reply(rl.store, d,
                   <<"checkRateLimit", "json", "validate", "findOne", "compare">>,
                   401, Failure("Invalid credentials"), NoHeaders, Null)
        ELSE LET tok == generateToken([userId |-> admin._id,
                                       username |-> admin.username,
                                       email |-> admin.email], t, t)
             IN  Reply(rl.store, d,
                       <<"checkRateLimit", "json", "validate", "findOne", "compare",
                         "generateToken">>,
                       200,
                       [success |-> TRUE, token |-> tok,
                        user |-> [username |-> admin.username, email |-> admin.email]],
                       NoHeaders, tok)

\* variant: the message is sent before the limiter is asked
M_contactPOSTSendsFirst(request, input, st, d, t) ==
    LET rl == checkRateLimit(st, request, RATE_LIMITS.contact, t)
    IN  IF ~rl.result.allowed
        THEN Reply(rl.store, d, <<"send", "checkRateLimit">>, 429,
                   Failure(rl.result.error), RateLimitHeaders("contact", rl.result), Null)
        ELSE Reply(rl.store, d, <<"send", "checkRateLimit">>, 200,
                   [success |-> TRUE], NoHeaders, Null)

\* POST /api/contact handled at clock t; input.host tells whether
\* resend.emails.send returns or throws
contactPOST(request, input, st, d, t) ==
    LET rl == checkRateLimit(st, request, RATE_LIMITS.contact, t)
    IN  IF ~rl.result.allowed
        THEN Reply(rl.store, d, <<"checkRateLimit">>, 429,
                   Failure(rl.result.error), RateLimitHeaders("contact", rl.result), Null)
        ELSE IF ~input.valid
        THEN Reply(rl.store, d, <<"checkRateLimit", "json", "validate">>, 400,
                   Failure("Invalid input"), NoHeaders, Null)
        ELSE IF ~input.host
        THEN Reply(rl.store, d, <<"checkRateLimit", "json", "validate", "send">>, 500,
                   Failure("Failed to send message"), NoHeaders, Null)
        ELSE Reply(rl.store, d, <<"checkRateLimit", "json", "validate", "send">>, 200,
                   [success |-> TRUE], NoHeaders, Null)

\* GET of a collection handled at clock t
collectionGET(c, request, st, d, t) ==
    LET rl == checkRateLimit(st, request, RATE_LIMITS.publicRead, t)
    IN  IF ~rl.result.allowed
        THEN Reply(rl.store, d, <<"checkRateLimit">>, 429,
                   Failure(rl.result.error), NoHeaders, Null)
        ELSE Reply(rl.store, d, <<"checkRateLimit", "find">>, 200,
                   [success |-> TRUE, data |-> { doc \in d.docs : doc.coll = c }],
                   NoHeaders, Null)

\* the RATE_LIMITS entry of a route
LimitOf(h) ==
    IF h \in Handlers THEN ClassOf(h)
    ELSE IF h.method = "GET" THEN "publicRead"
    ELSE h.resource

\* any route handled at clock t
serve(h, request, input, st, d, t) ==
    IF h \in Handlers
    THEN LET out == handle(h, request, input, st, d, t)
         IN  [Reply(out.store, out.db, out.steps, out.status, out.body, NoHeaders, Null)
                EXCEPT !.full = out.full]
    ELSE IF h.resource = "login" THEN loginPOST(request, input, st, d, t)
    ELSE IF h.resource = "contact" THEN contactPOST(request, input, st, d, t)
    ELSE collectionGET(h.resource, request, st, d, t)

----------------------------------------------------------------------------
(* All routes of the site, asked by two clients                             *)

\* handlers are not offered once the client's count has reached this value
MaxSiteCount == 6

Routes == Handlers \cup PublicHandlers

\* bodies of a login request: one that fails the schema, and the four
\* combinations of a known or unknown user with the right or a wrong password
LoginInputs ==
    { input \in [valid : BOOLEAN, username : Usernames, password : Passwords] :
        ~input.valid => (input.username = "ghost" /\ input.password = "wrong") }

\* bodies of a contact request, and whether the mail service answers
ContactInputs == [valid : BOOLEAN, host : BOOLEAN]

Did(steps, call) == \E i \in 1 .. Len(steps) : steps[i] = call

\* the object checkRateLimit returned in a handler run (Null: not called)
LimitResult(h, request, steps) ==
    IF Did(steps, "checkRateLimit")
    THEN checkRateLimit(rateLimitStore, request, ConfigOf(LimitOf(h)), now).result
    ELSE Null

\* one request handled from its first line to its response
Run(h, request, input, cap) ==
    \E out \in {serve(h, request, input, rateLimitStore, db, now)} :
        /\ CountOf(rateLimitStore, getClientIdentifier(request)) < cap
        /\ ~out.full
        /\ rateLimitStore' = out.store
        /\ db' = out.db
        /\ token' = IF out.token = Null THEN token
                    ELSE [op |-> "issue", payload |-> Admin, at |-> now,
                          elapsed |-> 0, value |-> out.token]
        /\ resp' = [op |-> "serve", route |-> h, request |-> request,
                    input |-> input, at |-> now,
                    steps |-> out.steps, status |-> out.status, body |-> out.body,
                    headers |-> out.headers,
                    limit |-> LimitResult(h, request, out.steps),
                    counted |-> out.store # rateLimitStore,
                    changed |-> out.db # db]
        /\ UNCHANGED <<now, last, trace, parVars, unswept, derived, verdict, session>>

Serve(h, request, input) ==
    Run(h, request, input, MaxSiteCount) /\ UNCHANGED lookups

\* a request of the client with an address and one of the client whose
\* identifier is a property name of Object.prototype, each without and with
\* the token the server has issued
SiteRequests ==
    {ReqDirect, ReqValueOf}
      \cup (IF token = NoToken THEN {}
            ELSE { r @@ ("authorization" :> Prepend(BearerPrefix, Str(token.value))) :
                     r \in {ReqDirect, ReqValueOf} })

SiteInputs(h) ==
    IF h.resource = "login" THEN LoginInputs
    ELSE IF h.resource = "contact" THEN ContactInputs
    ELSE {PlainInput}

NextSite ==
    \E h \in Routes, request \in SiteRequests :
        \E input \in SiteInputs(h) : Serve(h, request, input)

SpecSite == Init /\ [][NextSite]_vars

----------------------------------------------------------------------------
(* Claims about the rate-limit gate of the routes (SpecSite)                *)

\* the calls that reach the document store, the mail service or the image host
Collaborators ==
    {"find", "findOne", "insertOne", "updateOne", "deleteOne", "send", "upload",
     "destroy"}

\* the latest request was refused by the limiter
Limited == resp.op = "serve" /\ resp.limit # Null /\ ~resp.limit.allowed

\* C21: in every route handler a request for which checkRateLimit returned
\* allowed = false is answered 429, the check is the handler's last call, and
\* the run leaves the database and the image host as they were; a handler
\* that queried or wrote the document store, sent a mail or called the image
\* host had called checkRateLimit before and got allowed = true.
C21_NothingBehindTheLimit ==
    resp.op = "serve" =>
        /\ Limited =>
             /\ resp.status = 429
             /\ resp.steps[Len(resp.steps)] = "checkRateLimit"
             /\ \A i \in 1 .. Len(resp.steps) : resp.steps[i] \notin Collaborators
             /\ ~resp.changed
        /\ \A i \in 1 .. Len(resp.steps) :
             resp.steps[i] \in Collaborators =>
                /\ resp.limit # Null
                /\ resp.limit.allowed
                /\ \E j \in 1 .. i - 1 : resp.steps[j] = "checkRateLimit"

\* the fourth contact message of a window: valid, the mail service up, and
\* yet refused without a mail
C21_Witness ==
    /\ Limited
    /\ resp.route = [resource |-> "contact", method |-> "POST"]
    /\ resp.request = ReqDirect
    /\ resp.input = [valid |-> TRUE, host |-> TRUE]
    /\ resp.limit.resetAt = WindowMs("contact")
    /\ rateLimitStore[<<"1.2.3.4">>].count = RATE_LIMITS.contact.maxRequests + 1

\* C22: every rate-limited response has status 429 and the body
\* {success: false, error: <message of the route's class>}; on login and
\* contact it carries X-RateLimit-Limit = maxRequests of the class,
\* X-RateLimit-Remaining = 0 and X-RateLimit-Reset = the resetAt of the
\* client's entry; and the refusal it reports includes resetAt.
C22_RateLimitedResponse ==
    Limited =>
        LET identifier == getClientIdentifier(resp.request)
            class      == LimitOf(resp.route)
        IN  /\ resp.status = 429
            /\ resp.body = [success |-> FALSE, error |-> RATE_LIMITS[class].message]
            /\ resp.route.resource \in {"login", "contact"} =>
                 /\ resp.headers["X-RateLimit-Limit"]
                      = Digits(RATE_LIMITS[class].maxRequests)
                 /\ resp.headers["X-RateLimit-Remaining"] = <<0>>
                 /\ Own(rateLimitStore, identifier)
                 /\ resp.headers["X-RateLimit-Reset"]
                      = Digits(rateLimitStore[identifier].resetAt)
            /\ "resetAt" \in DOMAIN resp.limit

----------------------------------------------------------------------------
(* Claims about what the protected routes write (SpecRoutes)                *)

\* the POST and PUT handlers of the five collections
Writers ==
    { h \in Handlers : h.resource \in Collections /\ h.method \in {"POST", "PUT"} }

\* C23: in the POST and PUT handlers of projects, experiences, education,
\* skills and interests, insertOne and updateOne are called only after
\* validate was called on the request body, and only for a body that
\* validate accepts.
C23_WritesAreValidated ==
    \A h \in Writers, request \in RouteRequests : \A input \in InputsOf(h) :
        LET out == handle(h, request, input, rateLimitStore, db, now)
        IN  \A i \in 1 .. Len(out.steps) :
                out.steps[i] \in {"insertOne", "updateOne"} =>
                    /\ \E j \in 1 .. i - 1 : out.steps[j] = "validate"
                    /\ input.valid

----------------------------------------------------------------------------
(* The login route with its credential lookups counted                      *)

\* login attempts are not offered once the client's count has reached this value
MaxLoginCount == 7

LoginRoute == [resource |-> "login", method |-> "POST"]

\* login, and a public GET that counts on the same entry
LoginRoutes == {LoginRoute, [resource |-> "skills", method |-> "GET"]}

\* the clock after a 60 s window and after a 300 s window opened at 0
LoginReadings == {0, 60001, 300001}

\* the lookups of the window the client's entry stands for: a check that
\* opens a window starts the count anew
Counted(h, request, input) ==
    LET identifier == getClientIdentifier(request)
        out        == serve(h, request, input, rateLimitStore, db, now)
        base       == IF StartsWindow(rateLimitStore, identifier, now)
                      THEN [NoLookups EXCEPT !.resetAt = out.store[identifier].resetAt]
                      ELSE lookups
        One(call)  == IF Did(out.steps, call) THEN 1 ELSE 0
    IN  [base EXCEPT !.findOne = @ + One("findOne"),
                     !.compare = @ + One("compare"),
                     !.issued  = @ + One("generateToken")]

ServeCounted(h, request, input) ==
    /\ Run(h, request, input, MaxLoginCount)
    /\ lookups' = Counted(h, request, input)

TickLogin ==
    /\ \E t \in LoginReadings : t > now /\ now' = t
    /\ UNCHANGED <<siteVars, rateLimitStore, last, trace, parVars, auxVars>>

NextLogin ==
    \/ \E h \in LoginRoutes : \E input \in SiteInputs(h) :
         ServeCounted(h, ReqDirect, input)
    \/ Sweep
    \/ TickLogin

SpecLogin == Init /\ [][NextLogin]_vars

\* the latest request was a login attempt
Attempt == resp.op = "serve" /\ resp.route = LoginRoute

UnknownUser == { input \in LoginInputs : input.valid /\ findOne(input.username) = Null }
WrongPassword ==
    { input \in LoginInputs :
        /\ input.valid
        /\ findOne(input.username) # Null
        /\ ~compare(input.password, findOne(input.username).password) }

\* what the client gets to see of a handler run
Response(out) == [status |-> out.status, body |-> out.body, headers |-> out.headers]

\* C28: a login request with a valid body that passes the limiter gets the
\* same response (status 401, body {success: false, error: "Invalid
\* credentials"}, same headers) whether its user is unknown or its password
\* is wrong, and no token is issued for it.
C28_SameRefusal ==
    /\ \A u \in UnknownUser, w \in WrongPassword :
          LET a == loginPOST(ReqDirect, u, rateLimitStore, db, now)
              b == loginPOST(ReqDirect, w, rateLimitStore, db, now)
          IN  a.status # 429 =>
                /\ Response(a) = Response(b)
                /\ a.store = b.store
                /\ a.token = Null /\ b.token = Null
    /\ (Attempt /\ resp.limit.allowed /\ resp.input \in UnknownUser \cup WrongPassword)
          => /\ resp.status = 401
             /\ resp.body = [success |-> FALSE, error |-> "Invalid credentials"]
             /\ resp.headers = NoHeaders

\* an attempt for a user that does not exist was answered 401 after an
\* attempt for the admin with a wrong password was
C28_Witness ==
    /\ Attempt
    /\ resp.input \in UnknownUser
    /\ resp.status = 401
    /\ lookups.findOne > lookups.compare
    /\ lookups.compare > 0
    /\ lookups.issued = 0

----------------------------------------------------------------------------
(* Requests refused by requireAuth and the limiter (SpecSite)               *)

\* C27: on every POST, PUT and DELETE route a request that requireAuth
\* refuses is answered without a checkRateLimit call and leaves the
\* limiter's store as it was: the client's count is what it was before, and
\* so is whatever checkRateLimit answers it afterwards.
C27_RefusalCostsNothing ==
    (resp.op = "serve" /\ resp.route \in Handlers /\ resp.status = 401)
        => /\ ~resp.counted
           /\ resp.limit = Null
           /\ ~Did(resp.steps, "checkRateLimit")

\* a client that has used up its five login attempts was refused by
\* requireAuth on a mutating route, and its count is still five
C27_Witness ==
    /\ resp.op = "serve"
    /\ resp.route \in Handlers
    /\ resp.request = ReqDirect
    /\ resp.status = 401
    /\ CountOf(rateLimitStore, <<"1.2.3.4">>) = RATE_LIMITS.login.maxRequests

----------------------------------------------------------------------------
(* DELETE of a project and the image it refers to (SpecRoutes)              *)

ProjectDelete == [resource |-> "projects", method |-> "DELETE"]

\* the position of the first call of that name in a handler's log (0: none)
First(steps, call) ==
    IF Did(steps, call)
    THEN CHOOSE i \in 1 .. Len(steps) :
            steps[i] = call /\ \A j \in 1 .. i - 1 : steps[j] # call
    ELSE 0

----------------------------------------------------------------------------
(* The browser side: src/lib/authClient.ts                                  *)

\* network requests are not sent once this many have been sent
MaxSent == 3

\* values the login page stores under admin_token (one of them the empty
\* string) and under admin_user
StoredTokens == {"", "eyJ.a", "eyJ.b"}
StoredUsers == {"{admin}"}

\* options.headers of a call, by lower-case header name
OptionHeaders ==
    { << >>,
      ("content-type" :> "application/json"),
      ("authorization" :> <<"Basic ", "abc">>) }

\* the status of the response; the server is not looked into here
Statuses == {200, 201, 400, 401, 403, 404, 429, 500}

\* localStorage.getItem(key): << >> for null, <<value>> for a string
getItem(storage, key) == IF key \in DOMAIN storage THEN <<storage[key]>> ELSE << >>

\* localStorage.removeItem(key)
removeItem(storage, key) == [k \in DOMAIN storage \ {key} |-> storage[k]]

\* getAuthToken(); window tells whether the code runs in a browser
getAuthToken(window, s) ==
    IF ~window THEN << >> ELSE getItem(s.localStorage, "admin_token")

\* !!value of a string or null
Bool(item) == item # << >> /\ item[1] # ""

isAuthenticated(window, s) == Bool(getAuthToken(window, s))

\* variant: a logout that leaves admin_user behind
M_logoutKeepsUser(window, s) ==
    IF ~window THEN s
    ELSE [s EXCEPT !.localStorage = removeItem(@, "admin_token"),
                   !.location = "/admin/login"]

logout(window, s) ==
    IF ~window THEN s
    ELSE [s EXCEPT !.localStorage =
                       removeItem(removeItem(@, "admin_token"), "admin_user"),
                   !.location = "/admin/login"]

\* `Bearer ${token}`
Bearer(tok) == <<"Bearer ", tok>>

\* new Headers(init) followed by headers.set(name, value)
HeadersSet(init, name, value) ==
    [k \in DOMAIN init \cup {name} |-> IF k = name THEN value ELSE init[k]]

Thrown(message) == [op |-> "throw", error |-> message]

\* authenticatedFetch up to its await: without a token it logs out and
\* throws, with one it sends the request
Fetch(window, options) ==
    /\ session.pc = "idle"
    /\ session.sent < MaxSent
    /\ LET tok == getAuthToken(window, session)
       IN  IF ~Bool(tok)
           THEN session' = [logout(window, session)
                              EXCEPT !.outcome = Thrown("Not authenticated")]
           ELSE session' = [session EXCEPT
                              !.pc = "awaiting",
                              !.window = window,
                              !.sent = @ + 1,
                              !.fetch = [op |-> "fetch",
                                         headers |-> HeadersSet(options, "authorization",
                                                                Bearer(tok[1]))],
                              !.outcome = [op |-> "none"]]
    /\ UNCHANGED <<rateLimitStore, now, last, trace, parVars, auxVars, lookups>>

\* authenticatedFetch from the response on
Respond(status) ==
    /\ session.pc = "awaiting"
    /\ IF status = 401
       THEN session' = [logout(session.window, session)
                          EXCEPT !.pc = "idle", !.outcome = Thrown("Session expired")]
       ELSE session' = [session EXCEPT
                          !.pc = "idle",
                          !.outcome = [op |-> "return", status |-> status]]
    /\ UNCHANGED <<rateLimitStore, now, last, trace, parVars, auxVars, lookups>>

\* the login page, in this tab or another one, stores a token or a user
SetItem(key, value) ==
    /\ session' = [session EXCEPT
                     !.localStorage = HeadersSet(@, key, value),
                     !.location = "/admin"]
    /\ UNCHANGED <<rateLimitStore, now, last, trace, parVars, auxVars, lookups>>

NextSession ==
    \/ \E window \in BOOLEAN, options \in OptionHeaders : Fetch(window, options)
    \/ \E status \in Statuses : Respond(status)
    \/ \E value \in StoredTokens : SetItem("admin_token", value)
    \/ \E value \in StoredUsers : SetItem("admin_user", value)

SpecSession == Init /\ [][NextSession]_vars

\* C29: authenticatedFetch without a stored token (none, or the empty
\* string) sends nothing, logs out and throws 'Not authenticated'.  With a
\* token it sends one request whose Authorization header is "Bearer "
\* followed by the stored token, whatever options.headers held.  On a
\* response with status 401 it removes admin_token and admin_user and throws
\* 'Session expired', so isAuthenticated() is false afterwards; on every
\* other status it leaves localStorage as it is and returns the response.
C29_ClientSession ==
    [][/\ \A window \in BOOLEAN, options \in OptionHeaders :
            Fetch(window, options) =>
               IF isAuthenticated(window, session)
               THEN /\ session'.sent = session.sent + 1
                    /\ session'.fetch.headers["authorization"]
                         = <<"Bearer ", session.localStorage["admin_token"]>>
                    /\ session'.localStorage = session.localStorage
               ELSE /\ session'.sent = session.sent
                    /\ session'.fetch = session.fetch
                    /\ session'.pc = "idle"
                    /\ session'.outcome = [op |-> "throw", error |-> "Not authenticated"]
                    /\ window => /\ DOMAIN session'.localStorage = {}
                                 /\ session'.location = "/admin/login"
       /\ \A status \in Statuses :
            Respond(status) =>
               IF status = 401
               THEN /\ "admin_token" \notin DOMAIN session'.localStorage
                    /\ "admin_user" \notin DOMAIN session'.localStorage
                    /\ ~isAuthenticated(TRUE, session')
                    /\ session'.outcome = [op |-> "throw", error |-> "Session expired"]
               ELSE /\ session'.localStorage = session.localStorage
                    /\ session'.outcome = [op |-> "return", status |-> status]]_vars

\* a request went out with the stored token in place of the Authorization
\* header of the options, the answer was 401, and token and user are gone
C29_Witness ==
    /\ session.outcome = [op |-> "throw", error |-> "Session expired"]
    /\ session.fetch.op = "fetch"
    /\ session.fetch.headers = ("authorization" :> <<"Bearer ", "eyJ.b">>)
    /\ session.localStorage = << >>
    /\ session.location = "/admin/login"
    /\ session.sent = 2

====
